---- MODULE Spec2Model ----
(***************************************************************************)
(* Rank-Biased Centroids rank fusion (crate rank_biased_centroids):        *)
(* src/src/state.rs (RbcState, RbcRankedList) and src/src/lib.rs (rbc,     *)
(* rbc_with_weights).                                                      *)
(*                                                                         *)
(* An f64 is the tuple <<c, s, e>> \o m: class c (0 finite, 1 infinite,    *)
(* 2 NaN), sign bit s and, for a finite value, (-1)^s * M * 2^e with M the *)
(* natural number of the limbs m (base 2^15, least significant first), M   *)
(* odd, or M = 0 with no limb and e = 0.  Every double has one such tuple, *)
(* so equal tuples are equal bit patterns (NaN payloads aside).  The       *)
(* operations compute the exact result and round it to nearest, ties to    *)
(* even, to 53 bits with the exponent range of binary64.                   *)
(***************************************************************************)
EXTENDS Integers, Sequences, FiniteSets, TLC

(***************************************************************************)
(* Bounds of the model.                                                    *)
(***************************************************************************)
\* most ranked lists in one input collection
MaxLists == 2
\* most items over all the lists of one input collection, an empty list
\* counting as one
MaxItems == 2
\* SpecState: how far past the precomputed schedule update is called, and
\* most update calls
MaxBeyond == 2
MaxUpdates == 2

(***************************************************************************)
(* Natural numbers of any size, as limbs                                   *)
(***************************************************************************)
Base == 2^15

RECURSIVE BNorm(_)
BNorm(x) ==
    IF x = <<>> THEN <<>>
    ELSE IF x[Len(x)] = 0 THEN BNorm(SubSeq(x, 1, Len(x) - 1))
    ELSE x

Rest(x) == IF x = <<>> THEN <<>> ELSE Tail(x)
Low(x) == IF x = <<>> THEN 0 ELSE Head(x)

RECURSIVE BAddC(_, _, _)
BAddC(x, y, c) ==
    IF x = <<>> /\ y = <<>> THEN (IF c = 0 THEN <<>> ELSE <<c>>)
    ELSE LET t == Low(x) + Low(y) + c
         IN <<t % Base>> \o BAddC(Rest(x), Rest(y), t \div Base)
BAdd(x, y) == BAddC(x, y, 0)

\* x - y - c for x >= y + c
RECURSIVE BSubC(_, _, _)
BSubC(x, y, c) ==
    IF x = <<>> THEN <<>>
    ELSE LET t == Low(x) - Low(y) - c
         IN IF t < 0 THEN <<t + Base>> \o BSubC(Rest(x), Rest(y), 1)
            ELSE <<t>> \o BSubC(Rest(x), Rest(y), 0)
BSub(x, y) == BNorm(BSubC(x, y, 0))

\* -1, 0, 1
RECURSIVE BCmpAt(_, _, _)
BCmpAt(x, y, i) ==
    IF i = 0 THEN 0
    ELSE IF x[i] < y[i] THEN -1
    ELSE IF x[i] > y[i] THEN 1
    ELSE BCmpAt(x, y, i - 1)
BCmp(x, y) ==
    IF Len(x) < Len(y) THEN -1
    ELSE IF Len(x) > Len(y) THEN 1
    ELSE BCmpAt(x, y, Len(x))

\* x * l for a limb l
RECURSIVE BMulLimb(_, _, _)
BMulLimb(x, l, c) ==
    IF x = <<>> THEN (IF c = 0 THEN <<>> ELSE <<c>>)
    ELSE LET t == Head(x) * l + c
         IN <<t % Base>> \o BMulLimb(Tail(x), l, t \div Base)

RECURSIVE BMul(_, _)
BMul(x, y) ==
    IF x = <<>> \/ y = <<>> THEN <<>>
    ELSE LET hi == BMul(x, Tail(y))
         IN BAdd(BNorm(BMulLimb(x, Head(y), 0)),
                 IF hi = <<>> THEN <<>> ELSE <<0>> \o hi)

\* x * 2^n
BShl(x, n) ==
    IF x = <<>> THEN <<>>
    ELSE [i \in 1..(n \div 15) |-> 0] \o BMulLimb(x, 2^(n % 15), 0)

\* floor(x / 2^n)
BShr(x, n) ==
    LET q == n \div 15
        r == 2^(n % 15)
        y == SubSeq(x, q + 1, Len(x))
    IN BNorm([i \in 1..Len(y) |->
                (y[i] \div r)
                + (IF i < Len(y) THEN (y[i + 1] % r) * (Base \div r) ELSE 0)])

RECURSIVE BitLenLimb(_)
BitLenLimb(n) == IF n = 0 THEN 0 ELSE 1 + BitLenLimb(n \div 2)
BBitLen(x) == IF x = <<>> THEN 0 ELSE 15 * (Len(x) - 1) + BitLenLimb(x[Len(x)])

RECURSIVE TzLimb(_)
TzLimb(n) == IF n % 2 = 1 THEN 0 ELSE 1 + TzLimb(n \div 2)
\* the number of trailing zero bits of x # 0
RECURSIVE BTz(_)
BTz(x) == IF Head(x) = 0 THEN 15 + BTz(Tail(x)) ELSE TzLimb(Head(x))

BIsOdd(x) == x # <<>> /\ x[1] % 2 = 1

(***************************************************************************)
(* f64                                                                     *)
(***************************************************************************)
\* binary64: 53 significant bits, least exponent of a bit -1074, greatest
\* exponent of the leading bit 1023
SigBits == 53
MinExp == 0 - 1074
MaxExp == 1023

Cls(a) == a[1]
Sgn(a) == a[2]
Exp(a) == a[3]
Mant(a) == SubSeq(a, 4, Len(a))

FZero(s) == <<0, s, 0>>
Inf(s) == <<1, s, 0>>
\* a NaN with sign bit s; f64::NAN is NaN(0)
NaN(s) == <<2, s, 0>>
\* the NaN an invalid operation (inf - inf, 0 * inf) produces.  Rust leaves
\* its sign unspecified; this is the x86-64 one, sign bit set.
ComputedNaN == NaN(1)

IsFin(a) == Cls(a) = 0
IsZero(a) == Cls(a) = 0 /\ Len(a) = 3

\* the double (-1)^s * M * 2^e, for M * 2^e that binary64 holds exactly
Pack(s, M, e) ==
    IF M = <<>> THEN FZero(s)
    ELSE IF e + BBitLen(M) - 1 > MaxExp THEN Inf(s)
    ELSE LET tz == BTz(M) IN <<0, s, e + tz>> \o BShr(M, tz)

\* (-1)^s * P * 2^E rounded to nearest, ties to even
Round(s, P, E) ==
    IF P = <<>> THEN FZero(s)
    ELSE LET q0 == E + BBitLen(P) - SigBits
             q == IF q0 < MinExp THEN MinExp ELSE q0
         IN IF q <= E THEN Pack(s, P, E)
            ELSE LET sh == q - E
                     M == BShr(P, sh)
                     R == BSub(P, BShl(M, sh))
                     c == BCmp(R, BShl(<<1>>, sh - 1))
                     up == c > 0 \/ (c = 0 /\ BIsOdd(M))
                 IN Pack(s, IF up THEN BAdd(M, <<1>>) ELSE M, q)

\* a double given by sign, integer n < 2^15 and exponent: (-1)^s * n * 2^e
Dbl(s, n, e) == Pack(s, IF n = 0 THEN <<>> ELSE <<n>>, e)

Zero == FZero(0)
NegZero == FZero(1)
One == Dbl(0, 1, 0)
Half == Dbl(0, 1, 0 - 1)

\* f64::is_nan, f64::is_infinite
is_nan(a) == Cls(a) = 2
is_infinite(a) == Cls(a) = 1

\* |a| against |b| for finite a, b: -1, 0, 1
MagCmp(a, b) ==
    IF IsZero(a) \/ IsZero(b)
    THEN (IF IsZero(a) /\ IsZero(b) THEN 0 ELSE IF IsZero(a) THEN -1 ELSE 1)
    ELSE LET ta == Exp(a) + BBitLen(Mant(a))
             tb == Exp(b) + BBitLen(Mant(b))
             lo == IF Exp(a) < Exp(b) THEN Exp(a) ELSE Exp(b)
         IN IF ta < tb THEN -1
            ELSE IF ta > tb THEN 1
            ELSE BCmp(BShl(Mant(a), Exp(a) - lo), BShl(Mant(b), Exp(b) - lo))

\* a against b for finite a, b: -1, 0, 1 (the zeros are equal)
FinCmp(a, b) ==
    IF IsZero(a) /\ IsZero(b) THEN 0
    ELSE IF Sgn(a) # Sgn(b)
    THEN (IF IsZero(a) THEN (IF Sgn(b) = 1 THEN 1 ELSE -1)
          ELSE IF Sgn(a) = 1 THEN -1 ELSE 1)
    ELSE IF Sgn(a) = 1 THEN MagCmp(b, a) ELSE MagCmp(a, b)

\* position on the extended real line, for the comparisons with an infinity
Side(a) == IF Cls(a) = 1 THEN (IF Sgn(a) = 1 THEN -1 ELSE 1) ELSE 0

\* the IEEE 754 comparisons a < b and a <= b (false when either is NaN)
f_lt(a, b) ==
    /\ ~is_nan(a) /\ ~is_nan(b)
    /\ IF IsFin(a) /\ IsFin(b) THEN FinCmp(a, b) < 0 ELSE Side(a) < Side(b)
f_le(a, b) ==
    /\ ~is_nan(a) /\ ~is_nan(b)
    /\ IF IsFin(a) /\ IsFin(b) THEN FinCmp(a, b) <= 0 ELSE Side(a) <= Side(b)

\* f64::total_cmp as -1 (Less), 0 (Equal), 1 (Greater):
\* -NaN < -inf < negative < -0 < +0 < positive < +inf < +NaN
TotalRank(a) ==
    IF Cls(a) = 2 THEN (IF Sgn(a) = 1 THEN -2 ELSE 2) ELSE Side(a)
total_cmp(a, b) ==
    IF IsFin(a) /\ IsFin(b)
    THEN LET c == FinCmp(a, b)
         IN IF c # 0 THEN c
            ELSE IF Sgn(a) = Sgn(b) THEN 0 ELSE IF Sgn(a) = 1 THEN -1 ELSE 1
    ELSE IF TotalRank(a) < TotalRank(b) THEN -1
         ELSE IF TotalRank(a) > TotalRank(b) THEN 1
         ELSE 0

\* -a
f_neg(a) == [a EXCEPT ![2] = 1 - a[2]]

\* a * b.  A NaN operand is returned.  Of two NaN operands Rust leaves open
\* which; the machine instruction returns its first, and the build decides
\* the order in which a product or sum of the source reaches it.  f_mul and
\* f_add return the first of theirs, and a site where the build has the
\* operands the other way round (state.rs:41, state.rs:48) applies them
\* with the operands exchanged; the value is the same unless both are NaN.
f_mul(a, b) ==
    LET s == IF Sgn(a) = Sgn(b) THEN 0 ELSE 1
    IN IF is_nan(a) THEN a
       ELSE IF is_nan(b) THEN b
       ELSE IF is_infinite(a) \/ is_infinite(b)
       THEN (IF IsZero(a) \/ IsZero(b) THEN ComputedNaN ELSE Inf(s))
       ELSE Round(s, BMul(Mant(a), Mant(b)), Exp(a) + Exp(b))

\* a + b; an exact zero sum is +0 unless both operands are -0
f_add(a, b) ==
    IF is_nan(a) THEN a
    ELSE IF is_nan(b) THEN b
    ELSE IF is_infinite(a) /\ is_infinite(b)
    THEN (IF Sgn(a) = Sgn(b) THEN a ELSE ComputedNaN)
    ELSE IF is_infinite(a) THEN a
    ELSE IF is_infinite(b) THEN b
    ELSE IF IsZero(a) /\ IsZero(b)
    THEN (IF Sgn(a) = 1 /\ Sgn(b) = 1 THEN NegZero ELSE Zero)
    ELSE IF IsZero(a) THEN b
    ELSE IF IsZero(b) THEN a
    ELSE LET lo == IF Exp(a) < Exp(b) THEN Exp(a) ELSE Exp(b)
             A == BShl(Mant(a), Exp(a) - lo)
             B == BShl(Mant(b), Exp(b) - lo)
             c == BCmp(A, B)
         IN IF Sgn(a) = Sgn(b) THEN Round(Sgn(a), BAdd(A, B), lo)
            ELSE IF c = 0 THEN Zero
            ELSE IF c > 0 THEN Round(Sgn(a), BSub(A, B), lo)
            ELSE Round(Sgn(b), BSub(B, A), lo)

\* a - b; a NaN operand is returned as it is
f_sub(a, b) ==
    IF is_nan(a) THEN a
    ELSE IF is_nan(b) THEN b
    ELSE f_add(a, f_neg(b))

(***************************************************************************)
(* Option and Result                                                       *)
(***************************************************************************)
None == [tag |-> "None"]
Some(x) == [tag |-> "Some", v |-> x]
Err(e) == [tag |-> "Err", err |-> e]
Ok(x) == [tag |-> "Ok", v |-> x]

(***************************************************************************)
(* Inputs                                                                  *)
(***************************************************************************)
Items == {"A", "B"}

\* the ranked lists of at most n items
RankedLists(n) == UNION {[1..k -> Items] : k \in 0..n}

\* the collections of at most nl ranked lists holding at most n items, an
\* empty list counting as one
RECURSIVE Collections(_, _)
Collections(nl, n) ==
    {<<>>} \cup
    (IF nl = 0 \/ n = 0 THEN {}
     ELSE UNION {{<<l>> \o c :
                    c \in Collections(nl - 1, n - (IF l = <<>> THEN 1 ELSE Len(l)))} :
                 l \in RankedLists(n)})

\* p: NaN of either sign, -0.5, -0.0, 0.0, 0.5, 1.0, 1.5, +inf
Persistences ==
    {NaN(0), NaN(1), Dbl(1, 1, -1), NegZero, Zero, Half, One, Dbl(0, 3, -1), Inf(0)}

\* run weights 1.0 and -0.5; +inf and NaN
FiniteRunWeights == {One, Dbl(1, 1, -1)}
NonFiniteRunWeights == {Inf(0), NaN(0)}

\* the run weight vectors given with nl lists: up to one more weight than
\* lists.  rbc_with_weights returns at the first non-finite weight it reads,
\* so a non-finite weight is enumerated only as the last of its vector.
RunWeightVectors(nl) ==
    LET fin(n) == UNION {[1..k -> FiniteRunWeights] : k \in 0..n}
    IN fin(nl + 1) \cup
       {Append(v, w) : v \in fin(nl), w \in NonFiniteRunWeights}

\* the example of the crate documentation (lib.rs:165-169, 190-195):
\* p = 0.9 is the double 0x1.ccccccccccccdp-1
R1 == <<"A", "D", "B", "C", "G", "F">>
R2 == <<"B", "D", "E", "C">>
R3 == <<"A", "B", "D", "C", "G", "F", "E">>
R4 == <<"G", "D", "E", "A", "F", "C">>
ExampleRankings == <<R1, R2, R3, R4>>
ExampleP == <<0, 0, -53, 19661, 6553, 13107, 230>>
\* the doubles 0.3, 1.3, 0.4, 1.4: 0x1.3333333333333p-2,
\* 0x1.4cccccccccccdp+0, 0x1.999999999999ap-2, 0x1.6666666666666p+0
ExampleRunWeights ==
    << <<0, 0, -54, 13107, 26214, 19660, 153>>,
       <<0, 0, -52, 19661, 6553, 13107, 166>>,
       <<0, 0, -53, 19661, 6553, 13107, 102>>,
       <<0, 0, -51, 13107, 26214, 19660, 89>> >>

(***************************************************************************)
(* RbcState (state.rs)                                                     *)
(***************************************************************************)
\* state.rs:23: (0..10000i32)
PrefixLen == 10000

\* mutant: the range check with an inclusive upper end, 0.0..=1.0
VALID_P_RANGE_inclusive(x) == f_le(Zero, x) /\ f_le(x, One)

\* const VALID_P_RANGE: Range<f64> = 0.0..1.0;  Range::contains
VALID_P_RANGE_contains(x) == f_le(Zero, x) /\ f_lt(x, One)

\* mutant: the schedule started at p - 1 instead of 1 - p
FirstWeight_swapped(persistence) == f_sub(persistence, One)

\* state.rs:22: let mut w = 1.0 - persistence;
FirstWeight(persistence) == f_sub(One, persistence)

\* (0..len).map(|_| { let pw = w; w *= persistence; pw }).collect(): the
\* entries from w on, each the one before it times persistence.  The second
\* half is computed from the last entry of the first, which keeps the
\* evaluation shallow.
RECURSIVE PrefixWeights(_, _, _)
PrefixWeights(w, persistence, len) ==
    IF len = 0 THEN <<>>
    ELSE IF len = 1 THEN <<w>>
    ELSE LET h == len \div 2
             first == PrefixWeights(w, persistence, h)
         IN first \o PrefixWeights(f_mul(first[h], persistence), persistence, len - h)

\* the schedules with_persistence builds for the persistences of the model,
\* each computed once
Schedules ==
    [q \in {x \in Persistences \cup {ExampleP} : VALID_P_RANGE_contains(x)} |->
        PrefixWeights(FirstWeight(q), q, PrefixLen)]

\* the empty HashMap
EmptyMap == [i \in {} |-> Zero]

\* RbcState::with_persistence
with_persistence(persistence) ==
    IF ~VALID_P_RANGE_contains(persistence)
    THEN Err("InvalidPersistance")
    ELSE Ok([persistence |-> persistence,
             weights |-> Schedules[persistence],
             item_weights |-> EmptyMap])

\* mutant: `if` for `while`, the schedule grows by one entry at most
ExtendWeights_once(weights, persistence, rank) ==
    IF Len(weights) <= rank /\ weights # <<>>
    THEN Append(weights, f_mul(persistence, weights[Len(weights)]))
    ELSE weights

\* while self.weights.len() <= rank { push(last_weight * self.persistence) };
\* it stops at an empty vector, where last() finds nothing.  Of two NaN
\* the build returns that of persistence.
RECURSIVE ExtendWeights(_, _, _)
ExtendWeights(weights, persistence, rank) ==
    IF Len(weights) <= rank
    THEN (IF weights = <<>> THEN <<>>
          ELSE ExtendWeights(Append(weights, f_mul(persistence, weights[Len(weights)])),
                             persistence, rank))
    ELSE weights

\* whether update(rank, ..) panics: last() on an empty vector ("can't fail")
\* or get(rank) out of range ("this can't fail now")
update_panics(st, rank) ==
    Len(ExtendWeights(st.weights, st.persistence, rank)) <= rank

\* mutant: the run weight is not applied
Contribution_unweighted(w, run_weight) == w

\* mutant: the run weight is added instead of multiplied
Contribution_added(w, run_weight) ==
    IF run_weight.tag = "Some" THEN f_add(w, run_weight.v) ELSE w

\* the contribution of one occurrence: w, or w * rw for Some(rw)
Contribution(w, run_weight) ==
    IF run_weight.tag = "Some" THEN f_mul(w, run_weight.v) ELSE w

\* mutant: and_modify without or_insert, an absent item is never entered
EntryAddOnly(m, item, weight) ==
    [i \in DOMAIN m |-> IF i = item THEN f_add(weight, m[item]) ELSE m[i]]

\* item_weights.entry(item).and_modify(|e| *e += weight).or_insert(weight).
\* Of two NaN the build leaves that of weight.
EntryAddOrInsert(m, item, weight) ==
    [i \in DOMAIN m \cup {item} |->
        IF i = item
        THEN (IF item \in DOMAIN m THEN f_add(weight, m[item]) ELSE weight)
        ELSE m[i]]

\* RbcState::update, when it does not panic
update(st, rank, item, run_weight) ==
    LET ws == ExtendWeights(st.weights, st.persistence, rank)
        w == ws[rank + 1]
    IN [persistence |-> st.persistence,
        weights |-> ws,
        item_weights |-> EntryAddOrInsert(st.item_weights, item,
                                          Contribution(w, run_weight))]

\* the orders in which a HashMap with key set S may be iterated
\* (std's RandomState seeds every map differently)
RECURSIVE IterationOrders(_)
IterationOrders(S) ==
    IF S = {} THEN {<<>>}
    ELSE UNION {{<<x>> \o o : o \in IterationOrders(S \ {x})} : x \in S}

\* self.item_weights.into_iter().collect(), iterated in `order`
Collect(item_weights, order) ==
    [i \in 1..Len(order) |-> <<order[i], item_weights[order[i]]>>]

\* mutant: the comparator with its operands swapped, a.1.total_cmp(&b.1)
ByScoreAsc(a, b) == total_cmp(a[2], b[2])

\* the comparator of into_result: |a, b| b.1.total_cmp(&a.1)
ByScoreDesc(a, b) == total_cmp(b[2], a[2])

\* slice::sort_by is stable: x, taken after the elements of the sorted s,
\* goes before the first element it compares Less than
RECURSIVE InsertStable(_, _)
InsertStable(s, x) ==
    IF s = <<>> THEN <<x>>
    ELSE IF ByScoreDesc(x, Head(s)) < 0 THEN <<x>> \o s
    ELSE <<Head(s)>> \o InsertStable(Tail(s), x)

\* mutant: the sort left out
sort_by_skipped(items) == items

RECURSIVE sort_by(_)
sort_by(items) ==
    IF items = <<>> THEN <<>>
    ELSE InsertStable(sort_by(SubSeq(items, 1, Len(items) - 1)), items[Len(items)])

\* RbcState::into_result: RbcRankedList { items }
into_result(st, order) == sort_by(Collect(st.item_weights, order))

\* RbcRankedList::into_ranked_list
into_ranked_list(items) == [i \in 1..Len(items) |-> items[i][1]]

\* RbcRankedList::into_ranked_list_with_scores
into_ranked_list_with_scores(items) == items

(***************************************************************************)
(* One call of rbc or rbc_with_weights, and the use of its result          *)
(***************************************************************************)
VARIABLES
    api,             \* the function called: "rbc" or "rbc_with_weights";
                     \* "RbcState" for RbcState used on its own (SpecState)
    input_rankings,  \* argument input_rankings
    run_weights,     \* argument run_weights (<<>> for rbc, which has none)
    p,               \* argument p
    pc,              \* position in the call
    rbc_state,       \* local rbc_state (None before it is built and after
                     \* it is moved into into_result)
    list_idx,        \* lists taken from ranked_list_iter
    weight_idx,      \* weights taken from run_weights_iter
    rank,            \* enumerate() index of the next item of the current list
    run_weight,      \* local run_weight of the current list
    result,          \* the returned Result (None before the return)
    nupdates,        \* calls of RbcState::update made so far
    output           \* what the accessor called on the Ok result returned

vars == <<api, input_rankings, run_weights, p, pc, rbc_state, list_idx,
          weight_idx, rank, run_weight, result, nupdates, output>>

Locals0 ==
    /\ pc = "call"
    /\ rbc_state = None
    /\ list_idx = 0
    /\ weight_idx = 0
    /\ rank = 0
    /\ run_weight = None
    /\ result = None
    /\ nupdates = 0
    /\ output = None

Init ==
    /\ Locals0
    /\ \/ /\ api = "rbc"
          /\ input_rankings \in Collections(MaxLists, MaxItems)
          /\ run_weights = <<>>
          /\ p \in Persistences
       \/ /\ api = "rbc_with_weights"
          /\ input_rankings \in Collections(MaxLists, MaxItems)
          /\ run_weights \in RunWeightVectors(Len(input_rankings))
          /\ p \in Persistences
       \/ /\ api = "rbc"
          /\ input_rankings = ExampleRankings
          /\ run_weights = <<>>
          /\ p = ExampleP
       \/ /\ api = "rbc_with_weights"
          /\ input_rankings = ExampleRankings
          /\ run_weights = ExampleRunWeights
          /\ p = ExampleP

\* lib.rs:262 and lib.rs:312: let mut rbc_state = RbcState::with_persistence(p)?;
CallWithPersistence ==
    /\ pc = "call"
    /\ LET r == with_persistence(p)
       IN IF r.tag = "Err"
          THEN /\ result' = r
               /\ pc' = "returned"
               /\ UNCHANGED rbc_state
          ELSE /\ rbc_state' = r.v
               /\ pc' = IF api = "RbcState" THEN "built" ELSE "lists"
               /\ UNCHANGED result
    /\ UNCHANGED <<api, input_rankings, run_weights, p, list_idx, weight_idx,
                   rank, run_weight, nupdates, output>>

\* where the inner loop starts on the list just taken: an empty list ends it
EnterList(l) ==
    /\ rank' = 0
    /\ pc' = IF l = <<>> THEN "lists" ELSE "items"

\* lib.rs:266: for ranked_list in ranked_list_iter, a list is left
RbcNextList ==
    /\ api = "rbc"
    /\ pc = "lists"
    /\ list_idx < Len(input_rankings)
    /\ list_idx' = list_idx + 1
    /\ EnterList(input_rankings[list_idx + 1])
    /\ UNCHANGED <<api, input_rankings, run_weights, p, rbc_state, weight_idx,
                   run_weight, result, nupdates, output>>

\* lib.rs:317-323: for ranked_list in ranked_list_iter.by_ref(), a list is
\* left: match run_weights_iter.next()
RbcWithWeightsNextList ==
    /\ api = "rbc_with_weights"
    /\ pc = "lists"
    /\ list_idx < Len(input_rankings)
    /\ list_idx' = list_idx + 1
    /\ IF weight_idx >= Len(run_weights)
       THEN /\ result' = Err("InvalidRunWeights")
            /\ pc' = "returned"
            /\ UNCHANGED <<weight_idx, run_weight, rank>>
       ELSE LET w == run_weights[weight_idx + 1]
            IN /\ weight_idx' = weight_idx + 1
               /\ IF is_infinite(w) \/ is_nan(w)
                  THEN /\ result' = Err("InvalidRunWeights")
                       /\ pc' = "returned"
                       /\ UNCHANGED <<run_weight, rank>>
                  ELSE /\ run_weight' = Some(w)
                       /\ EnterList(input_rankings[list_idx + 1])
                       /\ UNCHANGED result
    /\ UNCHANGED <<api, input_rankings, run_weights, p, rbc_state, nupdates, output>>

\* lib.rs:267-269 and lib.rs:324-326: one turn of
\* for (rank, item) in ranked_list.into_iter().enumerate() { rbc_state.update(..) }
UpdateItem ==
    /\ pc = "items"
    /\ LET l == input_rankings[list_idx]
           item == l[rank + 1]
       IN IF update_panics(rbc_state, rank)
          THEN /\ pc' = "panicked"
               /\ UNCHANGED <<rbc_state, rank, nupdates>>
          ELSE /\ rbc_state' = update(rbc_state, rank, item, run_weight)
               /\ nupdates' = nupdates + 1
               /\ rank' = rank + 1
               /\ pc' = IF rank + 1 = Len(l) THEN "lists" ELSE "items"
    /\ UNCHANGED <<api, input_rankings, run_weights, p, list_idx, weight_idx,
                   run_weight, result, output>>

\* lib.rs:266: ranked_list_iter is exhausted, the loop ends
RbcLoopExit ==
    /\ api = "rbc"
    /\ pc = "lists"
    /\ list_idx >= Len(input_rankings)
    /\ pc' = "finalize"
    /\ UNCHANGED <<api, input_rankings, run_weights, p, rbc_state, list_idx,
                   weight_idx, rank, run_weight, result, nupdates, output>>

\* lib.rs:317 and 329-332: ranked_list_iter is exhausted, the loop ends;
\* if ranked_list_iter.next().is_some() { return Err(InvalidRunWeights) }
RbcWithWeightsLoopExit ==
    /\ api = "rbc_with_weights"
    /\ pc = "lists"
    /\ list_idx >= Len(input_rankings)
    /\ IF list_idx < Len(input_rankings)
       THEN /\ result' = Err("InvalidRunWeights")
            /\ pc' = "returned"
       ELSE /\ pc' = "finalize"
            /\ UNCHANGED result
    /\ UNCHANGED <<api, input_rankings, run_weights, p, rbc_state, list_idx,
                   weight_idx, rank, run_weight, nupdates, output>>

\* lib.rs:273 and lib.rs:335: Ok(rbc_state.into_result()); rbc_state is moved
\* into the call
Finalize ==
    /\ pc = "finalize"
    /\ \E order \in IterationOrders(DOMAIN rbc_state.item_weights) :
          result' = Ok(into_result(rbc_state, order))
    /\ rbc_state' = None
    /\ pc' = "returned"
    /\ UNCHANGED <<api, input_rankings, run_weights, p, list_idx,
                   weight_idx, rank, run_weight, nupdates, output>>

\* the caller takes the ranking without scores
IntoRankedList ==
    /\ pc = "returned"
    /\ result.tag = "Ok"
    /\ output' = Some(into_ranked_list(result.v))
    /\ pc' = "into_ranked_list"
    /\ UNCHANGED <<api, input_rankings, run_weights, p, rbc_state, list_idx,
                   weight_idx, rank, run_weight, result, nupdates>>

\* the caller takes the ranking with scores
IntoRankedListWithScores ==
    /\ pc = "returned"
    /\ result.tag = "Ok"
    /\ output' = Some(into_ranked_list_with_scores(result.v))
    /\ pc' = "into_ranked_list_with_scores"
    /\ UNCHANGED <<api, input_rankings, run_weights, p, rbc_state, list_idx,
                   weight_idx, rank, run_weight, result, nupdates>>

Next ==
    \/ CallWithPersistence
    \/ RbcNextList
    \/ RbcWithWeightsNextList
    \/ UpdateItem
    \/ RbcLoopExit
    \/ RbcWithWeightsLoopExit
    \/ Finalize
    \/ IntoRankedList
    \/ IntoRankedListWithScores

Spec == Init /\ [][Next]_vars

(***************************************************************************)
(* rbc as a function of its arguments, up to the accumulator it finalizes  *)
(***************************************************************************)
\* lib.rs:267-269: the inner loop over one list, from position r
RECURSIVE FoldItems(_, _, _, _)
FoldItems(st, l, r, rw) ==
    IF r >= Len(l) THEN st
    ELSE FoldItems(update(st, r, l[r + 1], rw), l, r + 1, rw)

\* lib.rs:266-270: the loop over the lists, from list i
RECURSIVE FoldRankings(_, _, _)
FoldRankings(st, rankings, i) ==
    IF i > Len(rankings) THEN st
    ELSE FoldRankings(FoldItems(st, rankings[i], 0, None), rankings, i + 1)

\* lib.rs:262-270: the RbcState that rbc hands to into_result, or its Err
rbc_accumulate(rankings, persistence) ==
    LET r == with_persistence(persistence)
    IN IF r.tag = "Err" THEN r ELSE Ok(FoldRankings(r.v, rankings, 1))

(***************************************************************************)
(* RbcState used on its own: with_persistence, then update at any rank     *)
(***************************************************************************)
\* the ranks update is called with: the first, the last of the precomputed
\* schedule, and up to MaxBeyond - 1 past it
Ranks == {0} \cup ((PrefixLen - 1)..(PrefixLen + MaxBeyond - 1))

InitState ==
    /\ Locals0
    /\ api = "RbcState"
    /\ input_rankings = <<>>
    /\ run_weights = <<>>
    /\ p \in Persistences

\* rbc_state.update(rank, item, run_weight)
UpdateAtRank ==
    /\ api = "RbcState"
    /\ pc = "built"
    /\ nupdates < MaxUpdates
    /\ \E r \in Ranks, item \in Items, rw \in {None, Some(Half)} :
          IF update_panics(rbc_state, r)
          THEN /\ pc' = "panicked"
               /\ UNCHANGED <<rbc_state, rank, run_weight, nupdates>>
          ELSE /\ rbc_state' = update(rbc_state, r, item, rw)
               /\ nupdates' = nupdates + 1
               /\ rank' = r + 1
               /\ run_weight' = rw
               /\ pc' = "built"
    /\ UNCHANGED <<api, input_rankings, run_weights, p, list_idx, weight_idx,
                   result, output>>

NextState ==
    \/ CallWithPersistence
    \/ UpdateAtRank

SpecState == InitState /\ [][NextState]_vars

(***************************************************************************)
(* Vocabulary of the properties                                            *)
(***************************************************************************)
Returned == pc \in {"returned", "into_ranked_list", "into_ranked_list_with_scores"}
Fusion == api \in {"rbc", "rbc_with_weights"}
FusedOk == Fusion /\ result.tag = "Ok"
\* the HashMap is iterated in some order
SomeOrder(S) == CHOOSE o \in IterationOrders(S) : TRUE

\* IEEE 754 a == b
f_eq(a, b) == f_le(a, b) /\ f_le(b, a)

\* (1 - p) * p^r, the factors taken in the order 1 - p, p, .., p
RECURSIVE Geometric(_)
Geometric(r) == IF r = 0 THEN f_sub(One, p) ELSE f_mul(Geometric(r - 1), p)

RECURSIVE f_sum(_)
f_sum(terms) ==
    IF Len(terms) = 1 THEN terms[1]
    ELSE f_add(f_sum(SubSeq(terms, 1, Len(terms) - 1)), terms[Len(terms)])

ItemsOf(rankings) ==
    UNION {{rankings[i][j] : j \in 1..Len(rankings[i])} : i \in 1..Len(rankings)}

ResultItems(items) == {items[i][1] : i \in 1..Len(items)}
ResultPairs(items) == {items[i] : i \in 1..Len(items)}
ScoreSeq(items) == [i \in 1..Len(items) |-> items[i][2]]
ScoreMap(items) ==
    [x \in ResultItems(items) |->
        items[CHOOSE i \in 1..Len(items) : items[i][1] = x][2]]

\* the occurrences <<list i, 0-based position r>> of the input, in input order
RECURSIVE Occurrences(_)
Occurrences(i) ==
    IF i > Len(input_rankings) THEN <<>>
    ELSE [r \in 1..Len(input_rankings[i]) |-> <<i, r - 1>>] \o Occurrences(i + 1)

RunWeightOf(i) == IF api = "rbc" THEN One ELSE run_weights[i]

\* (1 - p) * p^r * run_weight_i
Term(o) == f_mul(Geometric(o[2]), RunWeightOf(o[1]))

ExpectedScore(item) ==
    LET occ == SelectSeq(Occurrences(1),
                         LAMBDA o : input_rankings[o[1]][o[2] + 1] = item)
    IN f_sum([j \in 1..Len(occ) |-> Term(occ[j])])

\* the doubles 0.35, 0.28, 0.27, 0.27, 0.23, 0.22, 0.18 (lib.rs:172-178)
ExampleScores ==
    << <<0, 0, -53, 13107, 26214, 19660, 89>>,
       <<0, 0, -52, 5243, 3932, 27525, 35>>,
       <<0, 0, -51, 23593, 1310, 9175, 17>>,
       <<0, 0, -51, 23593, 1310, 9175, 17>>,
       <<0, 0, -55, 15729, 11796, 17039, 235>>,
       <<0, 0, -55, 23593, 1310, 9175, 225>>,
       <<0, 0, -54, 27525, 28835, 5242, 92>> >>
\* the doubles 0.30, 0.24, 0.23, 0.19, 0.19, 0.17, 0.13 (lib.rs:198-204)
WeightedExampleScores ==
    << <<0, 0, -54, 13107, 26214, 19660, 153>>,
       <<0, 0, -52, 9175, 31457, 23592, 30>>,
       <<0, 0, -55, 15729, 11796, 17039, 235>>,
       <<0, 0, -54, 23593, 1310, 9175, 97>>,
       <<0, 0, -54, 23593, 1310, 9175, 97>>,
       <<0, 0, -55, 30147, 14417, 2621, 174>>,
       <<0, 0, -53, 23593, 1310, 9175, 33>> >>
\* the double 0.005 (lib.rs:182, 208)
Epsilon == <<0, 0, -60, 5243, 3932, 27525, 163>>

\* approx::assert_abs_diff_eq!(s, es, epsilon = 0.005): |s - es| <= 0.005
Near(s, es) ==
    f_le(IF f_lt(es, s) THEN f_sub(s, es) ELSE f_sub(es, s), Epsilon)

IsExample == input_rankings = ExampleRankings /\ p = ExampleP

AllFinite(ws) == \A i \in 1..Len(ws) : IsFin(ws[i])

(***************************************************************************)
(* Properties                                                              *)
(***************************************************************************)

\* C1 (as claimed): a call of rbc_with_weights with a valid p and finite run
\* weights whose number differs from the number of lists, in either
\* direction, returns Err(InvalidRunWeights).
C1_CountMismatchRejected ==
    (/\ api = "rbc_with_weights"
     /\ Returned
     /\ f_le(Zero, p) /\ f_lt(p, One)
     /\ AllFinite(run_weights)
     /\ Len(run_weights) # Len(input_rankings))
    => result = Err("InvalidRunWeights")

\* C2 (as claimed): when rbc_with_weights ends in InvalidRunWeights, no call
\* of update has been made and the accumulator is empty.
C2_NoUpdateBeforeError ==
    result = Err("InvalidRunWeights")
    => nupdates = 0 /\ DOMAIN rbc_state.item_weights = {}

\* C3: rbc and rbc_with_weights return Err(InvalidPersistance) when p is 1.0,
\* above 1.0, below 0.0 or NaN, having built no RbcState and taken no list
\* and no run weight; and never return it when 0.0 <= p < 1.0.
C3_PersistenceValidated ==
    Fusion =>
      /\ (Returned /\ (is_nan(p) \/ f_lt(p, Zero) \/ f_le(One, p)))
         => /\ result = Err("InvalidPersistance")
            /\ rbc_state = None
            /\ list_idx = 0 /\ weight_idx = 0 /\ nupdates = 0
      /\ (f_le(Zero, p) /\ f_lt(p, One)) => result # Err("InvalidPersistance")

\* C3 witness: p = 1.0 exactly, rejected with lists and run weights waiting
C3_Witness ==
    /\ api = "rbc_with_weights"
    /\ Returned
    /\ p = One
    /\ result = Err("InvalidPersistance")
    /\ Len(input_rankings) > 0 /\ Len(run_weights) > 0

\* C4: the result of a successful rbc or rbc_with_weights call holds every
\* item that occurs in an input list exactly once, and no other item.
C4_ResultItemsAreInputItems ==
    FusedOk =>
      /\ ResultItems(result.v) = ItemsOf(input_rankings)
      /\ Len(result.v) = Cardinality(ResultItems(result.v))

\* C4 witness: the returned result of the documented example, whose seven
\* items occur 23 times in four lists
C4_Witness ==
    /\ FusedOk
    /\ IsExample
    /\ Len(result.v) = 7

\* C5: every score of a successful call is the sum over the occurrences of
\* its item, at 0-based position r of list i, of (1 - p) * p^r * run_weight_i
\* (run_weight_i = 1 for rbc); the documented example yields D, C, A, B, G,
\* E, F and, with run weights 0.3, 1.3, 0.4, 1.4, D, E, C, B, G, A, F, with
\* the documented scores.
C5_ScoreIsWeightedSum ==
    FusedOk =>
      /\ \A i \in 1..Len(result.v) :
            f_eq(result.v[i][2], ExpectedScore(result.v[i][1]))
      /\ (api = "rbc" /\ IsExample)
         => /\ into_ranked_list(result.v) = <<"D", "C", "A", "B", "G", "E", "F">>
            /\ \A i \in 1..7 :
                  Near(result.v[i][2], ExampleScores[i])
      /\ (api = "rbc_with_weights" /\ IsExample /\ run_weights = ExampleRunWeights)
         => /\ into_ranked_list(result.v) = <<"D", "E", "C", "B", "G", "A", "F">>
            /\ \A i \in 1..7 :
                  Near(result.v[i][2], WeightedExampleScores[i])

\* C5 witness: a weighted call in which an item occurs in two lists of
\* different run weights
C5_Witness ==
    /\ api = "rbc_with_weights"
    /\ FusedOk
    /\ p = Half
    /\ Len(input_rankings) = 2
    /\ Len(input_rankings[1]) = 1
    /\ input_rankings[2] = input_rankings[1]
    /\ run_weights = <<One, Dbl(1, 1, -1)>>

\* C6: a successful result is in descending order of score, and
\* into_ranked_list returns the items of into_ranked_list_with_scores in the
\* same order.
C6_SortedAndProjected ==
    /\ result.tag = "Ok"
       => \A i \in 1..(Len(result.v) - 1) :
             f_le(result.v[i + 1][2], result.v[i][2])
    /\ pc = "into_ranked_list"
       => output.v = [i \in 1..Len(result.v) |->
                        into_ranked_list_with_scores(result.v)[i][1]]
    /\ pc = "into_ranked_list_with_scores"
       => /\ output.v = result.v
          /\ into_ranked_list(result.v)
               = [i \in 1..Len(output.v) |-> output.v[i][1]]

\* C6 witness: into_ranked_list has returned two items of different scores
C6_Witness ==
    /\ Fusion
    /\ pc = "into_ranked_list"
    /\ Len(output.v) = 2
    /\ f_lt(result.v[2][2], result.v[1][2])

\* C7: rbc_with_weights with one run weight of 1.0 per list succeeds for a
\* valid p and gives every item the score rbc gives it on the same lists.
C7_UnitWeightsAreRbc ==
    /\ (/\ api = "rbc_with_weights"
        /\ Returned
        /\ f_le(Zero, p) /\ f_lt(p, One)
        /\ Len(run_weights) = Len(input_rankings)
        /\ \A i \in 1..Len(run_weights) : run_weights[i] = One)
       => /\ result.tag = "Ok"
          /\ ScoreMap(result.v) = rbc_accumulate(input_rankings, p).v.item_weights
    /\ (api = "rbc" /\ result.tag = "Ok")
       => ScoreMap(result.v) = rbc_accumulate(input_rankings, p).v.item_weights

\* C7 witness: two lists under run weights 1.0, 1.0
C7_Witness ==
    /\ api = "rbc_with_weights"
    /\ FusedOk
    /\ run_weights = <<One, One>>
    /\ Len(input_rankings) = 2
    /\ Len(input_rankings[1]) = 1
    /\ Len(result.v) = 2
    /\ p = Half

\* C8 (as claimed): the sequence a fusion returns does not depend on the
\* order in which the accumulator is iterated, ties included.
C8_SameSequenceForEveryIterationOrder ==
    (Fusion /\ pc = "finalize")
    => \A order \in IterationOrders(DOMAIN rbc_state.item_weights) :
          into_result(rbc_state, order)
            = into_result(rbc_state, SomeOrder(DOMAIN rbc_state.item_weights))

\* C8 (amended): whatever the order in which the accumulator is iterated, a
\* fusion returns the same sequence of scores and the same (item, score)
\* pairs, hence the same relative order of any two items of different
\* scores; only items of equal score may change places.
C8_SameUpToTies ==
    (Fusion /\ pc = "finalize")
    => LET one == into_result(rbc_state, SomeOrder(DOMAIN rbc_state.item_weights))
       IN \A order \in IterationOrders(DOMAIN rbc_state.item_weights) :
             LET other == into_result(rbc_state, order)
             IN /\ ScoreSeq(other) = ScoreSeq(one)
                /\ ResultPairs(other) = ResultPairs(one)

\* C8 witness: a fusion returned two items of equal score
C8_Witness ==
    /\ FusedOk
    /\ Len(result.v) = 2
    /\ result.v[1][2] = result.v[2][2]
    /\ p = Half

\* C9 (as claimed): every score of a successful rbc or rbc_with_weights call
\* is non-negative (stated for the calls given one run weight per list, or
\* none for rbc, so that no surplus weight is involved).
C9_ScoresNonNegative ==
    (FusedOk /\ (api = "rbc" \/ Len(run_weights) = Len(input_rankings)))
    => \A i \in 1..Len(result.v) : f_le(Zero, result.v[i][2])

\* C9 (amended): every score of a successful rbc or rbc_with_weights call
\* is non-negative when no run weight is negative (rbc has none).
C9_ScoresNonNegativeUnderNonNegativeWeights ==
    (/\ FusedOk
     /\ \A i \in 1..Len(run_weights) : f_le(Zero, run_weights[i]))
    => \A i \in 1..Len(result.v) : f_le(Zero, result.v[i][2])

\* C9 witness: the weighted example of the documentation returned its scores
C9_Witness ==
    /\ api = "rbc_with_weights"
    /\ FusedOk
    /\ run_weights = ExampleRunWeights
    /\ Len(result.v) = 7

\* the schedule is non-empty, starts at 1 - p and is geometric in p
ScheduleIsGeometric ==
    rbc_state # None =>
      LET ws == rbc_state.weights
      IN /\ Len(ws) >= 1
         /\ ws[1] = f_sub(One, p)
         /\ \A i \in 2..Len(ws) : ws[i] = f_mul(ws[i - 1], p)

\* a step keeps the entries of the schedule, and a call of update leaves it
\* longer than the rank it was called with (rank' is that rank plus one)
ScheduleOnlyGrows ==
    rbc_state # None =>
      /\ Len(rbc_state'.weights) >= Len(rbc_state.weights)
      /\ SubSeq(rbc_state'.weights, 1, Len(rbc_state.weights)) = rbc_state.weights
      /\ nupdates' = nupdates + 1 => Len(rbc_state'.weights) >= rank'

\* C10: once with_persistence has built it, and after update calls at any
\* ranks, the weight schedule is non-empty with weights[0] = 1 - p and
\* weights[i] = weights[i-1] * p; update only appends to it and leaves its
\* length above rank, so its lookup of weights[rank] never fails.
C10_WeightSchedule ==
    /\ [](ScheduleIsGeometric /\ pc # "panicked")
    /\ [][ScheduleOnlyGrows]_vars

\* C10 witness: one call of update past the precomputed schedule grew it by
\* two entries
C10_Witness ==
    /\ api = "RbcState"
    /\ rbc_state # None
    /\ p = Half
    /\ nupdates = 1
    /\ rank = PrefixLen + 2
    /\ Len(rbc_state.weights) = PrefixLen + 2

====
